---- MODULE Spec2Model ----
(***************************************************************************)
(* A model of smartart.py: the diagram data-model synthesizer working on   *)
(* the point list / connection list of a seed data model, and the injector *)
(* that registers the five diagram parts in a document package.            *)
(*                                                                         *)
(* A data model is a record [pts, cxns]: the children of <dgm:ptLst> and   *)
(* <dgm:cxnLst> in document order.  Identifiers (modelId) are naturals,    *)
(* 0 stands for an absent / empty attribute.  The type attribute of a data *)
(* point is absent in the XML; the string "None" stands for the absent     *)
(* attribute, as pt.get("type") is None does in the source.                *)
(***************************************************************************)
EXTENDS Integers, Sequences, FiniteSets, TLC

VARIABLES
    seed,       \* the template's data model (parts['data'], parsed)
    items,      \* the labels of the current synthesis call: a list for
                \* flat synthesis, the nested structure for hierarchy
    graph,      \* the data model returned by the last synthesis call
    pc,         \* "init" before the first synthesis call, "done" after one
    rtBig,      \* round trip: the larger item count
    rtSmall,    \* round trip: the smaller item count
    rtLog,      \* round trip: one record per synthesis made so far
    raised,     \* the exception the last synthesis call raised, "none"
                \* when it returned
    report,     \* what the last synthesis call handed back about the labels
                \* it placed: the set of its reports, empty when it handed
                \* back nothing of the kind
    rels,       \* doc.part.rels: the document part's relationships, each
                \* holding the part it targets
    body,       \* doc.element.body: the body's children in order
    compat,     \* the compatibilityMode settings of the settings part
    calls,      \* the number of add calls made on the document
    result,     \* how the last operation on the document ended
    history,    \* the diagrams added and deleted, in order
    threads,    \* where threads share the document: for each thread
                \* its place in its add call and the call's local values
    archive     \* the template archive on disk that the add calls find,
                \* where one archive is followed through the calls

synthVars == <<seed, items, graph, pc, rtBig, rtSmall, rtLog, raised, report>>

docVars == <<rels, body, compat, calls, result, history, threads, archive>>

vars == <<seed, items, graph, pc, rtBig, rtSmall, rtLog, raised, report,
          rels, body, compat, calls, result, history, threads, archive>>

(***************************************************************************)
(* Bounds                                                                  *)
(***************************************************************************)
MaxSeed == 4        \* data nodes in a seed: 0..MaxSeed
MaxItems == 8       \* labels in one flat synthesis call: 0..MaxItems
MaxExisting == 4    \* a document starts with diagrams among 1..MaxExisting
MaxCalls == 2       \* add calls made on one document
MaxDeletes == 1     \* diagrams deleted from one document
MaxInjItems == 1    \* labels of an add call on the document: 1..MaxInjItems
MaxLabels == 4      \* labels in a caller's nested structure: 0..MaxLabels
NumThreads == 2     \* threads that call add on one document

(***************************************************************************)
(* Helpers on sequences and sets                                           *)
(***************************************************************************)
Range(s) == {s[i] : i \in 1..Len(s)}

SetMax(S) == IF S = {} THEN 0 ELSE CHOOSE m \in S : \A x \in S : x <= m

\* the positions of s, ascending, whose element satisfies Test
Positions(s, Test(_)) ==
    SelectSeq([i \in 1..Len(s) |-> i], LAMBDA i : Test(s[i]))

\* s without the elements at the positions in drop
DropPositions(s, drop) ==
    LET keep == SelectSeq([i \in 1..Len(s) |-> i], LAMBDA i : i \notin drop)
    IN  [k \in 1..Len(keep) |-> s[keep[k]]]

(***************************************************************************)
(* Points and connections                                                  *)
(***************************************************************************)
Pt(id, type, text, pr, cxnId) ==
    [modelId |-> id, type |-> type, text |-> text, pr |-> pr, cxnId |-> cxnId]

Cxn(id, type, src, dest, ord, par, sib) ==
    [modelId |-> id, type |-> type, srcId |-> src, destId |-> dest,
     srcOrd |-> ord, parTransId |-> par, sibTransId |-> sib]

IsDataPt(p) == p.type = "None"

\* data_nodes of _modify_template_data_flat: the points without a type, in
\* document order
DataNodes(pts) == SelectSeq(pts, IsDataPt)

PtIds(g) == {g.pts[i].modelId : i \in 1..Len(g.pts)}

AllIds(g) == PtIds(g) \cup {g.cxns[i].modelId : i \in 1..Len(g.cxns)}

\* _new_guid: a fresh identifier; the k-th one drawn after the graph g
NewGuid(g, k) == SetMax(AllIds(g)) + k

\* _set_node_text: either branch leaves the point with the one text run
SetNodeTextAsPres(pt, text) == [pt EXCEPT !.text = text, !.type = "pres"]

SetNodeText(pt, text) == [pt EXCEPT !.text = text]

(***************************************************************************)
(* Seed data models.  A template's data model holds one doc point, the     *)
(* data points with a parTrans/sibTrans point pair each, a presentation    *)
(* root and the presentation points of the data points, and the parOf,     *)
(* presOf and presParOf connections among them.  A seed is drawn by its    *)
(* number n of data points and a shape:                                    *)
(*   radial     data point 1 is the centre, the others are its children    *)
(*   reversed   the point list holds the data points in descending         *)
(*              sibling order (the host appends a point where it likes)    *)
(*   parFirst   a presParOf connection precedes the presOf connection of   *)
(*              the same presentation point in the connection list         *)
(*   composite  a data point's presentation point has a child              *)
(*              presentation point, and its sibTrans has one too           *)
(*   untyped    parOf connections leave the type attribute out (parOf is   *)
(*              the schema's default)                                      *)
(* Data point k has modelId 10k, its parTrans 10k+1, its sibTrans 10k+2,   *)
(* its presentation points 10k+3 (shape), 10k+4 (child of 10k+3), 10k+5    *)
(* (of the sibTrans); its parOf connection is 10k+6.  The doc point is 1,  *)
(* the presentation root 2.  Seed text of data point k is -k.              *)
(***************************************************************************)
DocId == 1
PresRootId == 2

Shapes == [radial : BOOLEAN, reversed : BOOLEAN, parFirst : BOOLEAN,
           composite : BOOLEAN, untyped : BOOLEAN]

SeedParent(k, sh) == IF sh.radial /\ k > 1 THEN 10 ELSE DocId

SeedOrd(k, sh) == IF sh.radial /\ k > 1 THEN k - 2 ELSE k - 1

SeedRole(k, sh) == IF sh.radial THEN (IF k = 1 THEN "center" ELSE "spoke") ELSE "item"

\* the points of data point k: itself and its transition pair
SeedDataPts(k, sh) ==
    << Pt(10 * k, "None", 0 - k, SeedRole(k, sh), 0),
       Pt(10 * k + 1, "parTrans", 0, "trans", 10 * k + 6),
       Pt(10 * k + 2, "sibTrans", 0, "trans", 10 * k + 6) >>

SeedPresPts(k, sh) ==
    << Pt(10 * k + 3, "pres", 0, "shape", 0) >>
    \o (IF sh.composite
        THEN << Pt(10 * k + 4, "pres", 0, "text", 0),
                Pt(10 * k + 5, "pres", 0, "sibTransPres", 0) >>
        ELSE << >>)

SeedParOf(k, sh) ==
    Cxn(10 * k + 6, IF sh.untyped THEN "None" ELSE "parOf",
        SeedParent(k, sh), 10 * k, SeedOrd(k, sh), 10 * k + 1, 10 * k + 2)

PresOfCxn(id, src, dest) == Cxn(id, "presOf", src, dest, 0, 0, 0)

PresParOfCxn(id, src, dest) == Cxn(id, "presParOf", src, dest, 0, 0, 0)

\* the presentation connections of data point k, a presOf before its
\* presParOf or after it
SeedPresCxns(k, sh) ==
    LET b == 100 + 10 * k
        pair(o, p) == IF sh.parFirst THEN << p, o >> ELSE << o, p >>
    IN  pair(PresOfCxn(b, 10 * k, 10 * k + 3),
             PresParOfCxn(b + 1, PresRootId, 10 * k + 3))
        \o (IF sh.composite
            THEN pair(PresOfCxn(b + 2, 10 * k, 10 * k + 4),
                      PresParOfCxn(b + 3, 10 * k + 3, 10 * k + 4))
                 \o pair(PresOfCxn(b + 4, 10 * k + 2, 10 * k + 5),
                         PresParOfCxn(b + 5, PresRootId, 10 * k + 5))
            ELSE << >>)

RECURSIVE Flatten(_)
Flatten(ss) == IF ss = << >> THEN << >> ELSE Head(ss) \o Flatten(Tail(ss))

\* the order in which the point list holds the data points
SeedPtOrder(n, sh) == [i \in 1..n |-> IF sh.reversed THEN n + 1 - i ELSE i]

SeedGraph(n, sh) ==
    [pts  |-> << Pt(DocId, "doc", 0, "doc", 0) >>
              \o Flatten([i \in 1..n |-> SeedDataPts(SeedPtOrder(n, sh)[i], sh)])
              \o << Pt(PresRootId, "pres", 0, "root", 0) >>
              \o Flatten([k \in 1..n |-> SeedPresPts(k, sh)]),
     cxns |-> [k \in 1..n |-> SeedParOf(k, sh)]
              \o << PresOfCxn(100, DocId, PresRootId) >>
              \o Flatten([k \in 1..n |-> SeedPresCxns(k, sh)])]

Seeds == {SeedGraph(n, sh) : n \in 0..MaxSeed, sh \in Shapes}

\* A seed in which one presentation point (modelId 3, a text shape the
\* items share) is the presentation of every data point: the plain seed
\* with that point, its presParOf connection and one presOf connection
\* from each data point.
SharedPresId == 3

PlainShape == [radial |-> FALSE, reversed |-> FALSE, parFirst |-> FALSE,
               composite |-> FALSE, untyped |-> FALSE]

SharedSeed(n) ==
    LET plain == SeedGraph(n, PlainShape)
    IN  [pts  |-> Append(plain.pts, Pt(SharedPresId, "pres", 0, "sharedText", 0)),
         cxns |-> plain.cxns
                  \o << PresParOfCxn(200, PresRootId, SharedPresId) >>
                  \o [k \in 1..n |-> PresOfCxn(200 + k, 10 * k, SharedPresId)]]

SharedSeeds == {SharedSeed(n) : n \in 1..MaxSeed}

\* the labels of a call with n items: item i carries the label i
Items(n) == [i \in 1..n |-> i]

(***************************************************************************)
(* _remove_excess_nodes                                                    *)
(***************************************************************************)
\* lines 294-301: one pass over the connection list from position i on;
\* st.pres is pres_ids_to_remove so far, st.hit the positions appended to
\* cxns_to_remove
RECURSIVE PresScan(_, _, _, _)
PresScan(cxns, i, all_remove_ids, st) ==
    IF i > Len(cxns) THEN st
    ELSE LET c == cxns[i]
         IN  IF c.type = "presOf" /\ c.srcId \in all_remove_ids
             THEN PresScan(cxns, i + 1, all_remove_ids,
                           [pres |-> st.pres \cup {c.destId},
                            hit  |-> st.hit \cup {i}])
             ELSE IF c.type = "presParOf" /\ c.destId \in st.pres
             THEN PresScan(cxns, i + 1, all_remove_ids,
                           [pres |-> st.pres, hit |-> st.hit \cup {i}])
             ELSE PresScan(cxns, i + 1, all_remove_ids, st)

\* lines 273-275: the identifiers of data_nodes[keep_count:]
ToRemoveIdsOffByOne(data_nodes, keep_count) ==
    {data_nodes[i].modelId : i \in (keep_count + 2)..Len(data_nodes)}

ToRemoveIds(data_nodes, keep_count) ==
    {data_nodes[i].modelId : i \in (keep_count + 1)..Len(data_nodes)}

\* lines 280-284: the positions of the connections into or out of a removed
\* data point
DataCxnHits(cxns, to_remove_ids) ==
    {i \in 1..Len(cxns) :
        cxns[i].destId \in to_remove_ids \/ cxns[i].srcId \in to_remove_ids}

\* lines 285-290: the transition points those connections name
TransIdsOfEvery(cxns, hits) ==
    ({cxns[i].parTransId : i \in 1..Len(cxns)}
     \cup {cxns[i].sibTransId : i \in 1..Len(cxns)}) \ {0}

TransIds(cxns, hits) ==
    ({cxns[i].parTransId : i \in hits} \cup {cxns[i].sibTransId : i \in hits}) \ {0}

\* lines 292 and 303: the identifiers of the points to remove
AllRemoveIdsWithoutPres(to_remove_ids, trans_ids, pres_ids_to_remove) ==
    to_remove_ids \cup trans_ids

AllRemoveIds(to_remove_ids, trans_ids, pres_ids_to_remove) ==
    to_remove_ids \cup trans_ids \cup pres_ids_to_remove

RemoveExcessNodes(g, data_nodes, keep_count) ==
    LET to_remove_ids == ToRemoveIds(data_nodes, keep_count)
        hit1 == DataCxnHits(g.cxns, to_remove_ids)
        trans_ids == TransIds(g.cxns, hit1)
        scan == PresScan(g.cxns, 1, to_remove_ids \cup trans_ids,
                         [pres |-> {}, hit |-> {}])
        all_remove_ids == AllRemoveIds(to_remove_ids, trans_ids, scan.pres)
    IN  [pts  |-> SelectSeq(g.pts, LAMBDA p : p.modelId \notin all_remove_ids),
         cxns |-> DropPositions(g.cxns, hit1 \cup scan.hit)]

(***************************************************************************)
(* _add_extra_nodes                                                        *)
(***************************************************************************)
\* lines 326-332: the modelId of the first doc point, "" (0) without one
DocPointId(pts) ==
    LET at == Positions(pts, LAMBDA p : p.type = "doc")
    IN  IF at = << >> THEN 0 ELSE pts[at[1]].modelId

\* lines 334-339: srcOrd of the first parOf connection into last_id
LastOrd(cxns, last_id) ==
    LET at == Positions(cxns, LAMBDA c : c.type = "parOf" /\ c.destId = last_id)
    IN  IF at = << >> THEN 0 ELSE cxns[at[1]].srcOrd

AddExtraNodes(g, existing_data_nodes, extra_items) ==
    IF existing_data_nodes = << >> THEN g
    ELSE
    LET last_node == existing_data_nodes[Len(existing_data_nodes)]
        doc_id == DocPointId(g.pts)
        last_ord == LastOrd(g.cxns, last_node.modelId)
        m == Len(extra_items)
        \* the four identifiers drawn in round i (i from 1)
        new_id(i) == NewGuid(g, 4 * (i - 1) + 1)
        par_trans_id(i) == NewGuid(g, 4 * (i - 1) + 2)
        sib_trans_id(i) == NewGuid(g, 4 * (i - 1) + 3)
        cxn_id(i) == NewGuid(g, 4 * (i - 1) + 4)
        round(i) ==
            << [SetNodeText(last_node, extra_items[i]) EXCEPT !.modelId = new_id(i)],
               Pt(par_trans_id(i), "parTrans", 0, "empty", cxn_id(i)),
               Pt(sib_trans_id(i), "sibTrans", 0, "empty", cxn_id(i)) >>
    IN  [pts  |-> g.pts \o Flatten([i \in 1..m |-> round(i)]),
         cxns |-> g.cxns \o
                  [i \in 1..m |->
                      Cxn(cxn_id(i), "parOf", doc_id, new_id(i),
                          last_ord + (i - 1) + 1,
                          par_trans_id(i), sib_trans_id(i))]]

(***************************************************************************)
(* _modify_template_data_flat                                              *)
(***************************************************************************)
ModifyTemplateDataFlat(template, its) ==
    LET at == Positions(template.pts, IsDataPt)
        n == Len(at)
        \* lines 233-235: the i-th data point in document order gets item i
        rank(j) == CHOOSE i \in 1..n : at[i] = j
        pts1 == [j \in 1..Len(template.pts) |->
                    IF IsDataPt(template.pts[j]) /\ rank(j) <= Len(its)
                    THEN SetNodeText(template.pts[j], its[rank(j)])
                    ELSE template.pts[j]]
        g1 == [pts |-> pts1, cxns |-> template.cxns]
        data_nodes == DataNodes(pts1)
        g2 == IF Len(its) < n
              THEN RemoveExcessNodes(g1, data_nodes, Len(its)) ELSE g1
    IN  IF Len(its) > n
        THEN AddExtraNodes(g2, data_nodes, SubSeq(its, n + 1, Len(its)))
        ELSE g2

\* the exception the call raises on a parsed template: no path of lines
\* 226-245 raises, and _add_extra_nodes returns at once on a template
\* without data points (lines 320-321)
ModifyTemplateDataFlatRaises(template, its) == "none"

(***************************************************************************)
(* The synthesizer as a state machine: the seed is the template on disk,   *)
(* each call reads it afresh and returns a new data model.                 *)
(***************************************************************************)
EmptyGraph == [pts |-> << >>, cxns |-> << >>]

\* the synthesizer alone: no document is involved
NoDocument ==
    /\ rels = {} /\ body = << >> /\ compat = << >>
    /\ calls = 0 /\ result = "none" /\ history = << >>
    /\ archive = "none"
    /\ threads = << >>

SynthInit ==
    /\ seed \in Seeds \cup SharedSeeds
    /\ items = << >>
    /\ graph = EmptyGraph
    /\ pc = "init"
    /\ rtBig = 0 /\ rtSmall = 0 /\ rtLog = << >>
    /\ raised = "none" /\ report = {}
    /\ NoDocument

\* one call of _modify_template_data_flat(parts['data'], items)
FlatSynthesize ==
    \E n \in 0..MaxItems :
        /\ items' = Items(n)
        /\ graph' = ModifyTemplateDataFlat(seed, Items(n))
        /\ raised' = ModifyTemplateDataFlatRaises(seed, Items(n))
        /\ pc' = "done"
        /\ UNCHANGED <<seed, rtBig, rtSmall, rtLog, report>>
        /\ UNCHANGED docVars

SynthNext == FlatSynthesize

SynthSpec == SynthInit /\ [][SynthNext]_vars

(***************************************************************************)
(* Round trip: the same seed synthesized with rtBig items, then rtSmall    *)
(* items, then rtBig items again.                                          *)
(***************************************************************************)
DataCount(g) == Len(DataNodes(g.pts))

\* a ParentOf connection: type parOf, written out or left to the default
IsParOfCxn(c) == c.type \in {"parOf", "None"}

\* the points reachable from the points in S along connections
RECURSIVE ReachFrom(_, _)
ReachFrom(g, S) ==
    LET T == S \cup {id \in PtIds(g) :
                        \E i \in 1..Len(g.cxns) :
                            g.cxns[i].srcId \in S /\ g.cxns[i].destId = id}
    IN  IF T = S THEN S ELSE ReachFrom(g, T)

\* the presentation points no chain of connections reaches from the doc
\* point or a data point
Orphans(g) ==
    LET roots == {g.pts[i].modelId : i \in {j \in 1..Len(g.pts) :
                                        g.pts[j].type \in {"doc", "None"}}}
        pres == {g.pts[i].modelId : i \in {j \in 1..Len(g.pts) :
                                        g.pts[j].type = "pres"}}
    IN  pres \ ReachFrom(g, roots)

RoundTripInit ==
    /\ seed \in Seeds
    /\ rtBig \in 1..MaxItems
    /\ rtSmall \in 0..(rtBig - 1)
    /\ items = << >>
    /\ graph = EmptyGraph
    /\ pc = "init"
    /\ rtLog = << >>
    /\ raised = "none" /\ report = {}
    /\ NoDocument

RoundTripStep ==
    /\ Len(rtLog) < 3
    /\ \E n \in {IF Len(rtLog) = 1 THEN rtSmall ELSE rtBig} :
       \E g \in {ModifyTemplateDataFlat(seed, Items(n))} :
           /\ items' = Items(n)
           /\ graph' = g
           /\ rtLog' = Append(rtLog, [n |-> n, dataNodes |-> DataCount(g),
                                      orphans |-> Orphans(g)])
    /\ pc' = "done"
    /\ UNCHANGED <<seed, rtBig, rtSmall, raised, report>>
    /\ UNCHANGED docVars

RoundTripNext == RoundTripStep

RoundTripSpec == RoundTripInit /\ [][RoundTripNext]_vars

(***************************************************************************)
(* Reading a data model                                                    *)
(***************************************************************************)
DataIds(g) == {g.pts[i].modelId : i \in {j \in 1..Len(g.pts) : IsDataPt(g.pts[j])}}

PresIds(g) == {g.pts[i].modelId : i \in {j \in 1..Len(g.pts) : g.pts[j].type = "pres"}}

TextOf(g, id) == (CHOOSE p \in Range(g.pts) : p.modelId = id).text

\* the positions of the ParentOf connections from id to a data point, by
\* ascending ordering key (equal keys: by position in the connection list)
ChildCxns(g, id) ==
    SortSeq(Positions(g.cxns, LAMBDA c : IsParOfCxn(c) /\ c.srcId = id
                                          /\ c.destId \in DataIds(g)),
            LAMBDA a, b : g.cxns[a].srcOrd < g.cxns[b].srcOrd
                          \/ (g.cxns[a].srcOrd = g.cxns[b].srcOrd /\ a < b))

\* the texts of the data points below id, depth first in sibling order
RECURSIVE DfsTexts(_, _, _)
DfsTexts(g, id, fuel) ==
    IF fuel = 0 THEN << >>
    ELSE LET kids == ChildCxns(g, id)
         IN  Flatten([k \in 1..Len(kids) |->
                        << TextOf(g, g.cxns[kids[k]].destId) >>
                        \o DfsTexts(g, g.cxns[kids[k]].destId, fuel - 1)])

SiblingOrderTexts(g) == DfsTexts(g, DocPointId(g.pts), Len(g.pts))

\* no connection names a point that is not in the point list
NoDangling(g) ==
    \A i \in 1..Len(g.cxns) :
        g.cxns[i].srcId \in PtIds(g) /\ g.cxns[i].destId \in PtIds(g)

(***************************************************************************)
(* Claims about flat synthesis                                             *)
(***************************************************************************)

\* C1: over a seed with at least one data point, flat synthesis with N
\* items returns a data model with exactly N data points, for N below,
\* equal to and above the seed's count.
C1_ExactlyNDataNodes ==
    (pc = "done" /\ DataCount(seed) >= 1) => DataCount(graph) = Len(items)

C1_Witness ==
    /\ pc = "done"
    /\ DataCount(seed) = 3
    /\ Len(items) = 5
    /\ DataCount(graph) = 5

\* C2: after flat synthesis with items t1..tN the data points read in
\* sibling order (ascending ordering key of their ParentOf connections,
\* depth first from the doc point) carry t1..tN in that order.
C2_SiblingOrderCarriesItems ==
    (pc = "done" /\ DataCount(seed) >= 1) => SiblingOrderTexts(graph) = items

\* C3: after flat synthesis every data point, the appended ones included,
\* is the source of a PresentationOf connection to a presentation point
\* of the data model.
C3_EveryDataNodeHasPresentation ==
    (pc = "done" /\ DataCount(seed) >= 1) =>
        \A d \in DataIds(graph) :
            \E i \in 1..Len(graph.cxns) :
                /\ graph.cxns[i].type = "presOf"
                /\ graph.cxns[i].srcId = d
                /\ graph.cxns[i].destId \in PresIds(graph)

\* C4: after surplus data points were removed no connection of the data
\* model has a source or destination that names a point no longer there.
C4_NoDanglingAfterRemoval ==
    (pc = "done" /\ Len(items) < DataCount(seed)) => NoDangling(graph)

\* C5: synthesizing one seed with rtBig, rtSmall and rtBig items again
\* (8, 3, 8 among them) gives data models with rtBig, rtSmall and rtBig
\* data points, none of them with an orphaned presentation point.
C5_RoundTrip ==
    DataCount(seed) >= 1 =>
        \A k \in 1..Len(rtLog) :
            /\ rtLog[k].dataNodes = rtLog[k].n
            /\ rtLog[k].orphans = {}

C5_Witness ==
    /\ DataCount(seed) = 4
    /\ rtBig = 8 /\ rtSmall = 3
    /\ Len(rtLog) = 3
    /\ <<rtLog[1].dataNodes, rtLog[2].dataNodes, rtLog[3].dataNodes>> = <<8, 3, 8>>
    /\ \A k \in 1..3 : rtLog[k].orphans = {}

(***************************************************************************)
(* _modify_template_data_hierarchy.  The caller's nested dict is a         *)
(* sequence of records [label, kids] in insertion order, kids a sequence   *)
(* of the same kind.                                                       *)
(***************************************************************************)
\* lines 416-422
RECURSIVE FlattenHierarchy(_)
FlattenHierarchy(h) ==
    Flatten([i \in 1..Len(h) |->
                << h[i].label >>
                \o (IF h[i].kids # << >> THEN FlattenHierarchy(h[i].kids)
                    ELSE << >>)])

\* lines 400-413: children_map[parent_id], the (srcOrd, child) pairs of the
\* connections of type parOf into a data point, sorted; the child ids
ChildrenMap(g, parent_id) ==
    LET at == Positions(g.cxns, LAMBDA c : c.type = "parOf" /\ c.srcId = parent_id
                                            /\ c.destId \in {g.pts[j].modelId :
                                                  j \in {x \in 1..Len(g.pts) :
                                                          IsDataPt(g.pts[x])}})
        sorted == SortSeq(at, LAMBDA a, b :
                      g.cxns[a].srcOrd < g.cxns[b].srcOrd
                      \/ (g.cxns[a].srcOrd = g.cxns[b].srcOrd
                          /\ g.cxns[a].destId < g.cxns[b].destId))
    IN  [i \in 1..Len(sorted) |-> g.cxns[sorted[i]].destId]

SetTextOfAndPayload(pts, id, text) ==
    [j \in 1..Len(pts) |->
        IF pts[j].modelId = id /\ IsDataPt(pts[j])
        THEN [SetNodeText(pts[j], text) EXCEPT !.pr = "relabelled"] ELSE pts[j]]

SetTextOf(pts, id, text) ==
    [j \in 1..Len(pts) |->
        IF pts[j].modelId = id /\ IsDataPt(pts[j])
        THEN SetNodeText(pts[j], text) ELSE pts[j]]

\* lines 427-436: st.pts the points so far, st.k the labels the iterator
\* has handed out
RECURSIVE WalkAndAssign(_, _, _, _)
RECURSIVE WalkChildren(_, _, _, _, _)
WalkAndAssign(st, cxns, labels, parent_id) ==
    WalkChildren(st, cxns, labels,
                 ChildrenMap([pts |-> st.pts, cxns |-> cxns], parent_id), 1)

WalkChildren(st, cxns, labels, children, i) ==
    IF i > Len(children) THEN st
    ELSE IF st.k >= Len(labels) THEN st     \* StopIteration: break
    ELSE LET st1 == [pts |-> SetTextOf(st.pts, children[i], labels[st.k + 1]),
                     k   |-> st.k + 1]
         IN  WalkChildren(WalkAndAssign(st1, cxns, labels, children[i]),
                          cxns, labels, children, i + 1)

ModifyTemplateDataHierarchy(template, hierarchy) ==
    LET flat_labels == FlattenHierarchy(hierarchy)
        doc_id == DocPointId(template.pts)
        st == WalkAndAssign([pts |-> template.pts, k |-> 0], template.cxns,
                            flat_labels, doc_id)
    IN  [pts |-> st.pts, cxns |-> template.cxns]

\* the exception the call raises on a parsed template: StopIteration is
\* caught at line 434 and nothing else of lines 390-442 raises
ModifyTemplateDataHierarchyRaises(template, hierarchy) == "none"

\* what the call hands back about the labels it placed: line 442 returns
\* the serialized tree and nothing else
ModifyTemplateDataHierarchyReport(template, hierarchy) == {}

(***************************************************************************)
(* Hierarchy synthesis as a state machine.  A hierarchy seed is a tree     *)
(* over data points 1..n given by its parent vector (0 is the doc point),  *)
(* a point's parent having a smaller number; the ordering keys of the      *)
(* children of one parent ascend with the point number, or descend with    *)
(* it in a reversed seed.  The caller's nested structure is drawn the      *)
(* same way, label k for the k-th key.                                     *)
(***************************************************************************)
ParVectors(n) == {par \in [1..n -> 0..(n - 1)] : \A k \in 1..n : par[k] < k}

TreeOrd(k, par, sh) ==
    IF sh.reversed
    THEN Cardinality({j \in (k + 1)..Len(par) : par[j] = par[k]})
    ELSE Cardinality({j \in 1..(k - 1) : par[j] = par[k]})

TreeParOf(k, par, sh) ==
    Cxn(10 * k + 6, IF sh.untyped THEN "None" ELSE "parOf",
        IF par[k] = 0 THEN DocId ELSE 10 * par[k], 10 * k,
        TreeOrd(k, par, sh), 10 * k + 1, 10 * k + 2)

TreeSeed(par, sh) ==
    LET n == Len(par)
        flat == SeedGraph(n, sh)
    IN  [pts  |-> flat.pts,
         cxns |-> [i \in 1..Len(flat.cxns) |->
                      IF i <= n THEN TreeParOf(i, par, sh) ELSE flat.cxns[i]]]

TreeShapes == {sh \in Shapes : ~sh.radial /\ ~sh.parFirst /\ ~sh.composite}

TreeSeeds ==
    UNION {{TreeSeed(par, sh) : par \in ParVectors(n), sh \in TreeShapes} :
              n \in 0..MaxSeed}

\* the nested dict of a parent vector: the keys below p in insertion order
RECURSIVE Nest(_, _)
Nest(par, p) ==
    LET keys == Positions([k \in 1..Len(par) |-> par[k]], LAMBDA q : q = p)
    IN  [i \in 1..Len(keys) |-> [label |-> keys[i], kids |-> Nest(par, keys[i])]]

Hierarchies == UNION {{Nest(par, 0) : par \in ParVectors(n)} : n \in 0..MaxLabels}

HierInit ==
    /\ seed \in TreeSeeds
    /\ items = << >>
    /\ graph = EmptyGraph
    /\ pc = "init"
    /\ rtBig = 0 /\ rtSmall = 0 /\ rtLog = << >>
    /\ raised = "none" /\ report = {}
    /\ NoDocument

\* one call of _modify_template_data_hierarchy(parts['data'], hierarchy)
HierSynthesize ==
    \E h \in Hierarchies :
        /\ items' = h
        /\ graph' = ModifyTemplateDataHierarchy(seed, h)
        /\ raised' = ModifyTemplateDataHierarchyRaises(seed, h)
        /\ report' = ModifyTemplateDataHierarchyReport(seed, h)
        /\ pc' = "done"
        /\ UNCHANGED <<seed, rtBig, rtSmall, rtLog>>
        /\ UNCHANGED docVars

HierNext == HierSynthesize

HierSpec == HierInit /\ [][HierNext]_vars

(***************************************************************************)
(* Either synthesis, over any of the seeds                                 *)
(***************************************************************************)
AnySynthInit ==
    /\ seed \in Seeds \cup SharedSeeds \cup TreeSeeds
    /\ items = << >>
    /\ graph = EmptyGraph
    /\ pc = "init"
    /\ rtBig = 0 /\ rtSmall = 0 /\ rtLog = << >>
    /\ raised = "none" /\ report = {}
    /\ NoDocument

AnySynthNext == FlatSynthesize \/ HierSynthesize

AnySynthSpec == AnySynthInit /\ [][AnySynthNext]_vars

(***************************************************************************)
(* The template bundles                                                    *)
(***************************************************************************)
Topologies == {"basic_list", "basic_process", "hierarchy", "cycle", "pyramid", "radial"}

\* the file name patterns of part_map and the part key of each
Stems == {"data", "layout", "quickStyle", "colors", "drawing"}

PartKey(stem) == IF stem = "quickStyle" THEN "style" ELSE stem

PartKeys == {"data", "layout", "style", "colors", "drawing"}

CT_DGM_DATA == "application/vnd.openxmlformats-officedocument.drawingml.diagramData+xml"
CT_DGM_LAYOUT == "application/vnd.openxmlformats-officedocument.drawingml.diagramLayout+xml"
CT_DGM_STYLE == "application/vnd.openxmlformats-officedocument.drawingml.diagramStyle+xml"
CT_DGM_COLORS == "application/vnd.openxmlformats-officedocument.drawingml.diagramColors+xml"
CT_DGM_DRAWING == "application/vnd.ms-office.drawingml.diagramDrawing+xml"

RT_DGM_DATA == "http://schemas.openxmlformats.org/officeDocument/2006/relationships/diagramData"
RT_DGM_LAYOUT == "http://schemas.openxmlformats.org/officeDocument/2006/relationships/diagramLayout"
RT_DGM_STYLE == "http://schemas.microsoft.com/office/2007/relationships/diagramStyle"
RT_DGM_COLORS == "http://schemas.microsoft.com/office/2007/relationships/diagramColors"
RT_DGM_DRAWING == "http://schemas.microsoft.com/office/2007/relationships/diagramDrawing"

\* Relationship types a template's document.xml.rels may hold besides the
\* five above: the style and colors types in the open namespace, and the
\* type of a relationship that is not a diagram's
RT_QUICKSTYLE_OPEN == "http://schemas.openxmlformats.org/officeDocument/2006/relationships/diagramQuickStyle"
RT_COLORS_OPEN == "http://schemas.openxmlformats.org/officeDocument/2006/relationships/diagramColors"
RT_STYLES == "http://schemas.openxmlformats.org/officeDocument/2006/relationships/styles"

\* the Type attributes of the Relationship elements of a manifest, in
\* order: with the types the module's constants name, and with the style
\* and colors types in the open namespace
VendorManifest == << RT_STYLES, RT_DGM_DATA, RT_DGM_LAYOUT, RT_DGM_STYLE,
                     RT_DGM_COLORS, RT_DGM_DRAWING >>

OpenManifest == << RT_STYLES, RT_DGM_DATA, RT_DGM_LAYOUT, RT_QUICKSTYLE_OPEN,
                   RT_COLORS_OPEN, RT_DGM_DRAWING >>

\* A bundle on disk as an add call finds it: whether templates/<name>.docx
\* exists, which diagrams/ members the archive holds, whether
\* word/_rels/document.xml.rels can be read and the relationship types it
\* lists, and whether the data member parses.  A call meets a sound
\* bundle or one with a single fault.
SoundBundle == [present |-> TRUE, members |-> Stems, manifest |-> TRUE,
                relTypes |-> VendorManifest, wellformed |-> TRUE]

Bundles ==
    {SoundBundle}
    \cup {[SoundBundle EXCEPT !.present = FALSE]}
    \cup {[SoundBundle EXCEPT !.members = Stems \ {m}] : m \in Stems}
    \cup {[SoundBundle EXCEPT !.manifest = FALSE]}
    \cup {[SoundBundle EXCEPT !.wellformed = FALSE]}

\* lines 151-183: the error _extract_template_parts raises, "none" when it
\* returns the five parts
ExtractTemplatePartsErrorFourRequired(bundle) ==
    IF ~bundle.present THEN "FileNotFoundError"
    ELSE IF (PartKeys \ {"drawing"}) \ {PartKey(m) : m \in bundle.members} # {}
    THEN "ValueError"
    ELSE "none"

ExtractTemplatePartsError(bundle) ==
    IF ~bundle.present THEN "FileNotFoundError"
    ELSE IF PartKeys \ {PartKey(m) : m \in bundle.members} # {} THEN "ValueError"
    ELSE "none"

\* the payload of part key of the template of topology t, as extracted
TemplatePart(t, key) == [from |-> "template", topology |-> t, key |-> key]

\* lines 197-206: the branch of the if/elif chain a Type attribute takes,
\* by the substring it contains; "" when it takes none
RelKeyOfType(rtype) ==
    CASE rtype = RT_DGM_DATA -> "data"                \* "diagramData" in rtype
      [] rtype = RT_DGM_LAYOUT -> "layout"            \* "diagramLayout"
      [] rtype = RT_DGM_STYLE -> "style"              \* "diagramStyle"
      [] rtype = RT_QUICKSTYLE_OPEN -> "style"        \* "diagramQuickStyle"
      [] rtype = RT_DGM_COLORS -> "colors"            \* "diagramColors"
      [] rtype = RT_COLORS_OPEN -> "colors"
      [] rtype = RT_DGM_DRAWING -> "drawing"          \* "diagramDrawing"
      [] OTHER -> ""

\* lines 186-208: the rel_types dict read from the bundle's
\* document.xml.rels: by part key the Type of the last Relationship that
\* took the key's branch, "" for a key the dict does not hold
ExtractRelsFromTemplate(bundle) ==
    [key \in PartKeys |->
        LET at == Positions(bundle.relTypes, LAMBDA rtype : RelKeyOfType(rtype) = key)
        IN  IF at = << >> THEN "" ELSE bundle.relTypes[at[Len(at)]]]

\* the second argument of rel_types.get at lines 499-503
DefaultRelType(key) ==
    CASE key = "data" -> RT_DGM_DATA
      [] key = "layout" -> RT_DGM_LAYOUT
      [] key = "style" -> RT_DGM_STYLE
      [] key = "colors" -> RT_DGM_COLORS
      [] key = "drawing" -> RT_DGM_DRAWING

\* rel_types.get(key, default)
RelTypesGet(rel_types, key) ==
    IF rel_types[key] = "" THEN DefaultRelType(key) ELSE rel_types[key]

\* the data model in the data member of the template of topology t
TemplateSeed(t) ==
    SeedGraph(2, [radial |-> t \in {"radial", "hierarchy"}, reversed |-> FALSE,
                  parFirst |-> FALSE, composite |-> t = "basic_process",
                  untyped |-> FALSE])

\* lines 447-457
BuildEmptyDrawing == [from |-> "empty", topology |-> "", key |-> "drawing"]

(***************************************************************************)
(* The document package                                                    *)
(***************************************************************************)
ModernCompat == 15
DefaultWidthEmu == 5486400
DefaultHeightEmu == 3200400
TallHeightEmu == 4000000
DocPrIdBase == 100

PartName(dir, stem, idx) == [dir |-> dir, stem |-> stem, idx |-> idx]

NewPart(partname, ctype, blob) == [partname |-> partname, ctype |-> ctype, blob |-> blob]

\* lines 99-125: the first compatibilityMode setting is set to 15, one is
\* added when there is none
EnsureModernCompatAppends(settings) == Append(settings, ModernCompat)

EnsureModernCompat(settings) ==
    IF settings = << >> THEN << ModernCompat >>
    ELSE [settings EXCEPT ![1] = ModernCompat]

\* lines 130-138: the numbers of the relationship targets that contain
\* "diagrams/data"
ExistingDataNumbers(rs) ==
    {r.part.partname.idx : r \in {x \in rs : x.part.partname.dir = "diagrams"
                                            /\ x.part.partname.stem = "data"}}

\* line 139
NextDiagramIdByCount(rs) == Cardinality(ExistingDataNumbers(rs)) + 1

NextDiagramId(rs) == SetMax(ExistingDataNumbers(rs)) + 1

\* the rId relate_to gives a new relationship: the first rId<n> not in use
NextRId(rs) ==
    CHOOSE n \in 1..(Cardinality(rs) + 1) :
        /\ \A r \in rs : r.rId # n
        /\ \A m \in 1..(n - 1) : \E r \in rs : r.rId = m

\* doc.part.relate_to(part, reltype)
RelateToOncePerPartName(rs, part, reltype) ==
    IF \E r \in rs : r.part.partname = part.partname THEN rs
    ELSE rs \cup {[rId |-> NextRId(rs), reltype |-> reltype, part |-> part]}

RelateTo(rs, part, reltype) ==
    rs \cup {[rId |-> NextRId(rs), reltype |-> reltype, part |-> part]}

Heading(text) == [kind |-> "heading", text |-> text]

Paragraph == [kind |-> "paragraph", text |-> ""]

\* lines 506-526: the inline drawing paragraph
DrawingParaSwapped(idx, w, h, dm, lo, qs, cs) ==
    [kind |-> "drawing", idx |-> idx, docPr |-> idx + DocPrIdBase,
     cx |-> w, cy |-> h, dm |-> dm, lo |-> lo, qs |-> cs, cs |-> qs]

DrawingPara(idx, w, h, dm, lo, qs, cs) ==
    [kind |-> "drawing", idx |-> idx, docPr |-> idx + DocPrIdBase,
     cx |-> w, cy |-> h, dm |-> dm, lo |-> lo, qs |-> qs, cs |-> cs]

\* the content type of each part key (lines 492-496)
ContentTypeOfSwapped(key) ==
    CASE key = "data" -> CT_DGM_DATA
      [] key = "layout" -> CT_DGM_LAYOUT
      [] key = "style" -> CT_DGM_COLORS
      [] key = "colors" -> CT_DGM_STYLE
      [] key = "drawing" -> CT_DGM_DRAWING

ContentTypeOf(key) ==
    CASE key = "data" -> CT_DGM_DATA
      [] key = "layout" -> CT_DGM_LAYOUT
      [] key = "style" -> CT_DGM_STYLE
      [] key = "colors" -> CT_DGM_COLORS
      [] key = "drawing" -> CT_DGM_DRAWING

\* the file name stem of each part key (lines 483-487)
StemOf(key) == IF key = "style" THEN "quickStyle" ELSE key

\* lines 483-496: the five parts of diagram idx, by part key: the custom
\* data, the template's layout, style and colors, and the empty drawing
DiagramPartsDrawingCopied(idx, t, data_xml) ==
    [key \in PartKeys |->
        NewPart(PartName("diagrams", StemOf(key), idx), ContentTypeOf(key),
                CASE key = "data" -> [from |-> "synth", graph |-> data_xml]
                  [] OTHER -> TemplatePart(t, key))]

DiagramParts(idx, t, data_xml) ==
    [key \in PartKeys |->
        NewPart(PartName("diagrams", StemOf(key), idx), ContentTypeOf(key),
                CASE key = "data" -> [from |-> "synth", graph |-> data_xml]
                  [] key = "drawing" -> BuildEmptyDrawing
                  [] OTHER -> TemplatePart(t, key))]

\* lines 499-503: the five relate_to calls in order; the relationships
\* afterwards and the rId of each part key
RegisterPartsButDrawing(rs, parts, rel_types) ==
    LET rs1 == RelateTo(rs, parts["data"], RelTypesGet(rel_types, "data"))
        rs2 == RelateTo(rs1, parts["layout"], RelTypesGet(rel_types, "layout"))
        rs3 == RelateTo(rs2, parts["style"], RelTypesGet(rel_types, "style"))
        rs4 == RelateTo(rs3, parts["colors"], RelTypesGet(rel_types, "colors"))
    IN  [rels |-> rs4,
         rId  |-> [key \in PartKeys |->
                     CASE key = "data" -> NextRId(rs)
                       [] key = "layout" -> NextRId(rs1)
                       [] key = "style" -> NextRId(rs2)
                       [] key = "colors" -> NextRId(rs3)
                       [] key = "drawing" -> 0]]

RegisterParts(rs, parts, rel_types) ==
    LET rs1 == RelateTo(rs, parts["data"], RelTypesGet(rel_types, "data"))
        rs2 == RelateTo(rs1, parts["layout"], RelTypesGet(rel_types, "layout"))
        rs3 == RelateTo(rs2, parts["style"], RelTypesGet(rel_types, "style"))
        rs4 == RelateTo(rs3, parts["colors"], RelTypesGet(rel_types, "colors"))
        rs5 == RelateTo(rs4, parts["drawing"], RelTypesGet(rel_types, "drawing"))
    IN  [rels |-> rs5,
         rId  |-> [key \in PartKeys |->
                     CASE key = "data" -> NextRId(rs)
                       [] key = "layout" -> NextRId(rs1)
                       [] key = "style" -> NextRId(rs2)
                       [] key = "colors" -> NextRId(rs3)
                       [] key = "drawing" -> NextRId(rs4)]]

\* lines 506-529: the drawing paragraph is appended to the body
AppendDrawingSkipped(bd, idx, w, h, rId) == bd

AppendDrawing(bd, idx, w, h, rId) ==
    Append(bd, DrawingPara(idx, w, h, rId["data"], rId["layout"],
                           rId["style"], rId["colors"]))

\* A document as the functions see it, and what a call returns: the
\* document afterwards, the exception raised ("ok" when none) and the
\* diagram index the call allocated (0 when it got to none).
Doc(rs, bd, st) == [rels |-> rs, body |-> bd, compat |-> st]

Outcome(doc, error, idx) == [doc |-> doc, error |-> error, idx |-> idx]

\* lines 474-529
InjectSmartArt(doc, t, bundle, data_xml, w, h) ==
    LET idx == NextDiagramId(doc.rels)
        doc1 == [doc EXCEPT !.compat = EnsureModernCompat(doc.compat)]
        parts == DiagramParts(idx, t, data_xml)
        reg == RegisterParts(doc1.rels, parts, ExtractRelsFromTemplate(bundle))
    IN  IF ExtractTemplatePartsError(bundle) # "none"
        THEN Outcome(doc1, ExtractTemplatePartsError(bundle), idx)
        ELSE IF ~bundle.manifest
        THEN Outcome(doc1, "KeyError", idx)
        ELSE Outcome([doc1 EXCEPT !.rels = reg.rels,
                                  !.body = AppendDrawing(doc1.body, idx, w, h, reg.rId)],
                     "ok", idx)

\* lines 538-548; hierarchy is << >> for None
AddSmartArtTo(doc, t, its, title, hierarchy, isHierarchy, bundle, w, h) ==
    LET doc1 == IF title # "" THEN [doc EXCEPT !.body = Append(doc.body, Heading(title))]
                ELSE doc
    IN  IF ExtractTemplatePartsError(bundle) # "none"
        THEN Outcome(doc1, ExtractTemplatePartsError(bundle), 0)
        ELSE IF ~bundle.wellformed
        THEN Outcome(doc1, "XMLSyntaxError", 0)
        ELSE InjectSmartArt(doc1, t, bundle,
                            IF isHierarchy
                            THEN ModifyTemplateDataHierarchy(TemplateSeed(t), hierarchy)
                            ELSE ModifyTemplateDataFlat(TemplateSeed(t), its),
                            w, h)

\* the nested dict {1: {2: {... n: {}}}}
RECURSIVE ChainHierarchy(_, _)
ChainHierarchy(from, to) ==
    IF from > to THEN << >>
    ELSE << [label |-> from, kids |-> ChainHierarchy(from + 1, to)] >>

\* lines 563-729: the public add_* method of topology t, called with a
\* title and n labels (add_radial: a center and n - 1 items)
SmartArtAdd(doc, t, title, n, bundle) ==
    CASE t = "hierarchy" ->
            AddSmartArtTo(doc, t, << >>, title, ChainHierarchy(1, n), TRUE, bundle,
                          DefaultWidthEmu, TallHeightEmu)
      [] t = "radial" ->
            AddSmartArtTo(doc, t, << 1 >> \o [i \in 1..(n - 1) |-> i + 1], title,
                          << >>, FALSE, bundle, DefaultWidthEmu, TallHeightEmu)
      [] OTHER ->
            AddSmartArtTo(doc, t, Items(n), title, << >>, FALSE, bundle,
                          DefaultWidthEmu,
                          IF t \in {"cycle", "pyramid"} THEN TallHeightEmu
                          ELSE DefaultHeightEmu)

(***************************************************************************)
(* The document as a state machine.  A document is opened holding a        *)
(* paragraph and complete diagrams at some indices among 1..MaxExisting,   *)
(* with no, an old or the modern compatibilityMode setting.  Add calls     *)
(* are made on it one after the other, and the host may delete a diagram   *)
(* (its relationships, parts and drawing paragraph) between them.          *)
(***************************************************************************)
BaseRels ==
    {[rId |-> 1, reltype |-> "styles",
      part |-> NewPart(PartName("word", "styles", 0), "styles+xml",
                       [from |-> "host", topology |-> "", key |-> "styles"])],
     [rId |-> 2, reltype |-> "settings",
      part |-> NewPart(PartName("word", "settings", 0), "settings+xml",
                       [from |-> "host", topology |-> "", key |-> "settings"])]}

HostParts(idx) ==
    [key \in PartKeys |->
        NewPart(PartName("diagrams", StemOf(key), idx), ContentTypeOf(key),
                [from |-> "host", topology |-> "", key |-> key])]

\* the document with the host's diagrams at the indices in S: the five
\* relationships of each, numbered on from the base relationships, and
\* its drawing paragraph, by ascending index
RankIn(i, S) == Cardinality({x \in S : x <= i})

KeyNo(key) ==
    CASE key = "data" -> 1 [] key = "layout" -> 2 [] key = "style" -> 3
      [] key = "colors" -> 4 [] key = "drawing" -> 5

HostRId(i, S, key) == Cardinality(BaseRels) + 5 * (RankIn(i, S) - 1) + KeyNo(key)

HostRels(S) ==
    {[rId |-> HostRId(i, S, key), reltype |-> DefaultRelType(key),
      part |-> HostParts(i)[key]] : i \in S, key \in PartKeys}

HostDrawings(S) ==
    LET sorted == SortSeq(Positions([i \in 1..SetMax(S) |-> i], LAMBDA i : i \in S),
                          LAMBDA a, b : a < b)
    IN  [k \in 1..Len(sorted) |->
            DrawingPara(sorted[k], DefaultWidthEmu, DefaultHeightEmu,
                        HostRId(sorted[k], S, "data"), HostRId(sorted[k], S, "layout"),
                        HostRId(sorted[k], S, "style"), HostRId(sorted[k], S, "colors"))]

WithHostDiagrams(doc, S) ==
    [doc EXCEPT !.rels = doc.rels \cup HostRels(S),
                !.body = doc.body \o HostDrawings(S)]

DocInit ==
    /\ \E S \in SUBSET (1..MaxExisting), st \in {<< >>, << 14 >>, << ModernCompat >>} :
          LET doc == WithHostDiagrams(Doc(BaseRels, << Paragraph >>, st), S)
          IN  rels = doc.rels /\ body = doc.body /\ compat = doc.compat
    /\ calls = 0
    /\ result = "none"
    /\ history = << >>
    /\ archive = "none"
    /\ threads = << >>
    /\ seed = EmptyGraph /\ items = << >> /\ graph = EmptyGraph /\ pc = "init"
    /\ rtBig = 0 /\ rtSmall = 0 /\ rtLog = << >>
    /\ raised = "none" /\ report = {}

\* the effect on the document of one call of
\* SmartArt.add_<topology>(doc, title, ...) that finds the given bundle
AddCall(t, title, n, bundle) ==
    /\ \E out \in {SmartArtAdd(Doc(rels, body, compat), t, title, n, bundle)} :
          /\ rels' = out.doc.rels
          /\ body' = out.doc.body
          /\ compat' = out.doc.compat
          /\ result' = out.error
          /\ history' = IF out.error = "ok"
                        THEN Append(history, [op |-> "add", idx |-> out.idx])
                        ELSE history
    /\ calls' = calls + 1
    /\ UNCHANGED <<archive, threads>>
    /\ UNCHANGED synthVars

\* one call of SmartArt.add_<topology>(doc, title, ...)
AddDiagram ==
    /\ calls < MaxCalls
    /\ \E t \in Topologies, title \in {"", "Title"}, n \in 1..MaxInjItems,
          bundle \in Bundles :
          AddCall(t, title, n, bundle)

\* the index of a diagrams/ part a relationship targets
DiagramIndices(rs) ==
    {r.part.partname.idx : r \in {x \in rs : x.part.partname.dir = "diagrams"}}

\* the host deletes diagram i: its five relationships (and so its parts)
\* and its drawing paragraph
DeleteDiagram ==
    /\ Cardinality({k \in 1..Len(history) : history[k].op = "delete"}) < MaxDeletes
    /\ \E i \in DiagramIndices(rels) :
          /\ rels' = {r \in rels : ~(r.part.partname.dir = "diagrams"
                                     /\ r.part.partname.idx = i)}
          /\ body' = SelectSeq(body, LAMBDA e : ~(e.kind = "drawing" /\ e.idx = i))
          /\ history' = Append(history, [op |-> "delete", idx |-> i])
    /\ result' = "deleted"
    /\ UNCHANGED <<compat, calls, archive, threads>>
    /\ UNCHANGED synthVars

Next == AddDiagram \/ DeleteDiagram

Init == DocInit

Spec == Init /\ [][Next]_vars

(***************************************************************************)
(* Threads sharing one document, each making one add call (no title, one   *)
(* label, a sound template).  The steps of a call are the places of        *)
(* _inject_smartart where it reads or writes the document: it reads the    *)
(* relationships for the index and raises the compatibility setting        *)
(* (lines 474-477), registers its five parts (lines 499-503), appends      *)
(* its drawing paragraph (line 529).  A thread may be preempted between    *)
(* two steps.                                                              *)
(***************************************************************************)
\* the data model _add_smartart hands the injector for one label
SynthData(t) ==
    IF t = "hierarchy"
    THEN ModifyTemplateDataHierarchy(TemplateSeed(t), ChainHierarchy(1, 1))
    ELSE ModifyTemplateDataFlat(TemplateSeed(t), Items(1))

\* the default height of add_<t>
HeightOf(t) ==
    IF t \in {"hierarchy", "cycle", "pyramid", "radial"} THEN TallHeightEmu
    ELSE DefaultHeightEmu

NoRIds == [key \in PartKeys |-> 0]

RaceInit ==
    /\ \E S \in SUBSET (1..MaxExisting) :
          LET doc == WithHostDiagrams(Doc(BaseRels, << Paragraph >>, << 14 >>), S)
          IN  rels = doc.rels /\ body = doc.body /\ compat = doc.compat
    /\ threads = [k \in 1..NumThreads |->
                    [pc |-> "start", t |-> "", idx |-> 0, seen |-> {}, rId |-> NoRIds]]
    /\ calls = 0
    /\ result = "none"
    /\ history = << >>
    /\ archive = "none"
    /\ seed = EmptyGraph /\ items = << >> /\ graph = EmptyGraph /\ pc = "init"
    /\ rtBig = 0 /\ rtSmall = 0 /\ rtLog = << >>
    /\ raised = "none" /\ report = {}

\* lines 474-477: idx = _next_diagram_id(doc); _ensure_modern_compat(doc)
ThreadAllocate(k) ==
    /\ threads[k].pc = "start"
    /\ \E t \in Topologies :
          threads' = [threads EXCEPT ![k] =
                         [pc |-> "allocated", t |-> t, idx |-> NextDiagramId(rels),
                          seen |-> ExistingDataNumbers(rels), rId |-> NoRIds]]
    /\ compat' = EnsureModernCompat(compat)
    /\ UNCHANGED <<rels, body, calls, result, history, archive>>
    /\ UNCHANGED synthVars

\* lines 479-503: the parts are built and the five relate_to calls made
ThreadRegister(k) ==
    /\ threads[k].pc = "allocated"
    /\ \E reg \in {RegisterParts(rels, DiagramParts(threads[k].idx, threads[k].t,
                                                    SynthData(threads[k].t)),
                                  ExtractRelsFromTemplate(SoundBundle))} :
          /\ rels' = reg.rels
          /\ threads' = [threads EXCEPT ![k].pc = "registered", ![k].rId = reg.rId]
    /\ UNCHANGED <<body, compat, calls, result, history, archive>>
    /\ UNCHANGED synthVars

\* lines 506-529: the drawing paragraph is appended and the call returns
ThreadAppend(k) ==
    /\ threads[k].pc = "registered"
    /\ body' = AppendDrawing(body, threads[k].idx, DefaultWidthEmu,
                             HeightOf(threads[k].t), threads[k].rId)
    /\ threads' = [threads EXCEPT ![k].pc = "done"]
    /\ calls' = calls + 1
    /\ result' = "ok"
    /\ history' = Append(history, [op |-> "add", idx |-> threads[k].idx])
    /\ UNCHANGED <<rels, compat, archive>>
    /\ UNCHANGED synthVars

RaceNext ==
    \E k \in 1..NumThreads :
        ThreadAllocate(k) \/ ThreadRegister(k) \/ ThreadAppend(k)

RaceSpec == RaceInit /\ [][RaceNext]_vars

(***************************************************************************)
(* One template archive followed through the add calls that read it.  The  *)
(* archive is any combination of present or absent and of diagrams/        *)
(* members with the manifest of the module's constants, or a whole one     *)
(* with another manifest: the open-namespace style and colors types, or    *)
(* no relationship of one of the five kinds; or it has one of the other    *)
(* single faults.                                                          *)
(***************************************************************************)
Manifests ==
    {VendorManifest, OpenManifest}
    \cup {DropPositions(VendorManifest, {i}) : i \in 2..Len(VendorManifest)}

TemplateBundles ==
    {[SoundBundle EXCEPT !.present = p, !.members = ms] :
        p \in BOOLEAN, ms \in SUBSET Stems}
    \cup {[SoundBundle EXCEPT !.relTypes = m] : m \in Manifests}
    \cup Bundles

TemplateInit ==
    /\ archive \in TemplateBundles
    /\ threads = << >>
    /\ rels = BaseRels
    /\ body = << Paragraph >>
    /\ compat \in {<< >>, << 14 >>}
    /\ calls = 0
    /\ result = "none"
    /\ history = << >>
    /\ seed = EmptyGraph /\ items = << >> /\ graph = EmptyGraph /\ pc = "init"
    /\ rtBig = 0 /\ rtSmall = 0 /\ rtLog = << >>
    /\ raised = "none" /\ report = {}

\* one call of SmartArt.add_<topology>(doc, None, ...) that reads the archive
TemplateAdd ==
    /\ calls < MaxCalls
    /\ \E t \in Topologies, n \in 1..MaxInjItems : AddCall(t, "", n, archive)

TemplateNext == TemplateAdd

TemplateSpec == TemplateInit /\ [][TemplateNext]_vars

(***************************************************************************)
(* Reading a document                                                      *)
(***************************************************************************)
\* the parts of the package: those a relationship targets
PartsOf(rs) == {r.part : r \in rs}

DrawingsOf(bd) == SelectSeq(bd, LAMBDA e : e.kind = "drawing")

\* the diagram indices the document refers to, from a relationship or
\* from a drawing paragraph
IndicesInUse(rs, bd) ==
    DiagramIndices(rs) \cup {bd[k].idx : k \in {j \in 1..Len(bd) : bd[j].kind = "drawing"}}

\* this step is an add call that returned
AddSucceeds == calls' = calls + 1 /\ result' = "ok"

\* this step is an add call that raised
AddFails == calls' = calls + 1 /\ result' # "ok"

\* diagram i is whole: one relationship to a part at each of the five
\* paths of index i, and one drawing paragraph of index i whose four
\* relationship ids are those of the data, layout, style and colors parts
RelOfStem(rs, stem, i) ==
    {r \in rs : r.part.partname = PartName("diagrams", stem, i)}

WholeDiagram(rs, bd, i) ==
    /\ \A stem \in Stems : Cardinality(RelOfStem(rs, stem, i)) = 1
    /\ Cardinality({r \in rs : r.part.partname.dir = "diagrams"
                               /\ r.part.partname.idx = i}) = 5
    /\ \E k \in 1..Len(bd) :
          /\ bd[k].kind = "drawing" /\ bd[k].idx = i
          /\ \A j \in 1..Len(bd) : (bd[j].kind = "drawing" /\ bd[j].idx = i) => j = k
          /\ \E r \in RelOfStem(rs, "data", i) : r.rId = bd[k].dm
          /\ \E r \in RelOfStem(rs, "layout", i) : r.rId = bd[k].lo
          /\ \E r \in RelOfStem(rs, "quickStyle", i) : r.rId = bd[k].qs
          /\ \E r \in RelOfStem(rs, "colors", i) : r.rId = bd[k].cs

NoDiagram(rs, bd, i) == i \notin IndicesInUse(rs, bd)

(***************************************************************************)
(* Claims about the injector                                               *)
(***************************************************************************)

\* C6: the index an add call allocates is the highest diagram index the
\* document refers to plus one (1 when it refers to none), so never an
\* index in use: the parts it adds are all at that one index.
C6_AllocatesMaxPlusOne ==
    [][AddSucceeds =>
          /\ DiagramIndices(rels') \ DiagramIndices(rels)
                = {SetMax(IndicesInUse(rels, body)) + 1}
          /\ \A r \in rels' \ rels :
                /\ r.part.partname.dir = "diagrams"
                /\ r.part.partname.idx \notin IndicesInUse(rels, body)]_vars

\* a document opened with diagrams 1, 3, 4: an add call took 5, diagram 3
\* was deleted, the next add call took 6
C6_Witness ==
    /\ history = << [op |-> "add", idx |-> 5], [op |-> "delete", idx |-> 3],
                    [op |-> "add", idx |-> 6] >>
    /\ IndicesInUse(rels, body) = {1, 4, 5, 6}

\* C7: an index freed by a deletion is never allocated again: every index
\* an add call allocates is greater than every index an earlier add call
\* on the document allocated.
C7_NeverReusesFreedIndex ==
    \A i, j \in 1..Len(history) :
        (i < j /\ history[i].op = "add" /\ history[j].op = "add")
            => history[i].idx < history[j].idx

\* C8: an add call that fails leaves the document as it was: no heading,
\* no change of the compatibility setting, no part, no relationship and
\* no drawing paragraph has been added.
C8_FailedCallLeavesDocumentUnchanged ==
    [][AddFails => (rels' = rels /\ body' = body /\ compat' = compat)]_vars

\* C9: after every call, completed or failed, and every deletion, each
\* diagram index is either whole (five parts, five relationships, its
\* drawing paragraph in the body) or not in the document at all.
C9_NoPartialInjection ==
    \A i \in 1..(MaxExisting + MaxCalls + 1) :
        WholeDiagram(rels, body, i) \/ NoDiagram(rels, body, i)

\* a failed call (after a completed one) on a document holding diagrams
C9_Witness ==
    /\ result = "KeyError"
    /\ history # << >>
    /\ \E i \in DiagramIndices(rels) :
          /\ WholeDiagram(rels, body, i)
          /\ \E r \in rels : r.part.partname.idx = i /\ r.part.blob.from = "synth"

\* C10: a completed add call adds five parts and five relationships, one
\* to each new part, and one drawing paragraph, which is the last child
\* of the body; the relationships, parts and body children from before
\* the call are all still there, unchanged and in their order.
C10_AddsFivePartsFiveRelsOneDrawing ==
    [][AddSucceeds =>
          /\ rels \subseteq rels'
          /\ Cardinality(rels' \ rels) = 5
          /\ PartsOf(rels) \subseteq PartsOf(rels')
          /\ Cardinality(PartsOf(rels') \ PartsOf(rels)) = 5
          /\ \A q \in PartsOf(rels') \ PartsOf(rels) :
                Cardinality({r \in rels' \ rels : r.part = q}) = 1
          /\ \A r \in rels' \ rels : \A o \in rels : o.rId # r.rId
          /\ Len(body') > Len(body)
          /\ SubSeq(body', 1, Len(body)) = body
          /\ body'[Len(body')].kind = "drawing"
          /\ Len(DrawingsOf(body')) = Len(DrawingsOf(body)) + 1]_vars

\* a second completed call, with a title, on a document that held diagrams
C10_Witness ==
    /\ result = "ok"
    /\ Len(history) = 2 /\ history[2].op = "add" /\ history[1].op = "add"
    /\ Len(body) >= 5
    /\ body[Len(body)].kind = "drawing"
    /\ body[Len(body) - 1].kind = "heading"

(***************************************************************************)
(* Claims about the template bundles                                       *)
(***************************************************************************)
\* the part key of the diagram part a relationship targets
KeyOfRel(r) == PartKey(r.part.partname.stem)

\* C11: for every topology and every one of the five kinds, the type of
\* the relationship an add call registers is the type the template's
\* manifest holds for that kind, never one of the module's own constants
\* put in its place.
C11_RegistersExtractedRelTypes ==
    [][AddSucceeds =>
          \A r \in rels' \ rels :
              r.reltype = ExtractRelsFromTemplate(archive)[KeyOfRel(r)]]_vars

\* C14: an add call whose template archive is absent fails with
\* FileNotFoundError, one whose archive lacks any of the five diagram
\* members fails with ValueError, and a call gets its parts (and may then
\* succeed) only from an archive that is present with all five members.
C14_BundleErrors ==
    calls > 0 =>
        /\ ~archive.present => result = "FileNotFoundError"
        /\ (archive.present /\ archive.members # Stems) => result = "ValueError"
        /\ result \notin {"FileNotFoundError", "ValueError"}
              => (archive.present /\ archive.members = Stems)

C14_Witness ==
    /\ calls > 0
    /\ archive.present
    /\ archive.members = Stems \ {"drawing"}
    /\ result = "ValueError"

(***************************************************************************)
(* Claims about the drawing paragraph and the settings                     *)
(***************************************************************************)
\* the relationship attributes of <dgm:relIds> in a drawing paragraph
TokensOf(d) == DOMAIN d \ {"kind", "idx", "docPr", "cx", "cy"}

\* C12: the drawing paragraph a completed add call appends carries four
\* relationship ids and no more, r:dm, r:lo, r:qs and r:cs, each the id of
\* the relationship the same call registered to the data, layout,
\* quickStyle and colors part of the call's diagram index; the call also
\* registers a relationship to the drawing part, whose id is none of the
\* four.
C12_DrawingCarriesFourTokens ==
    [][AddSucceeds =>
          LET d == body'[Len(body')]
              new(stem) == {r \in rels' \ rels :
                              r.part.partname = PartName("diagrams", stem, d.idx)}
          IN  /\ d.kind = "drawing"
              /\ TokensOf(d) = {"dm", "lo", "qs", "cs"}
              /\ \A stem \in Stems : Cardinality(new(stem)) = 1
              /\ \A r \in new("data") : d.dm = r.rId
              /\ \A r \in new("layout") : d.lo = r.rId
              /\ \A r \in new("quickStyle") : d.qs = r.rId
              /\ \A r \in new("colors") : d.cs = r.rId
              /\ \A r \in new("drawing") : r.rId \notin {d.dm, d.lo, d.qs, d.cs}]_vars

\* a completed call on a document that held the diagrams 1 and 2
C12_Witness ==
    /\ result = "ok"
    /\ history = << [op |-> "add", idx |-> 3] >>
    /\ body[Len(body)].kind = "drawing"
    /\ body[Len(body)].idx = 3
    /\ <<body[Len(body)].dm, body[Len(body)].lo, body[Len(body)].qs,
         body[Len(body)].cs>> = <<13, 14, 15, 16>>

\* C13: once an add call has completed on a document that was opened
\* with at most one compatibilityMode setting, whatever its value, the
\* settings hold exactly one such setting and its value is 15, however
\* many calls follow.
C13_CompatRaisedOnce ==
    (\E k \in 1..Len(history) : history[k].op = "add")
        => compat = << ModernCompat >>

\* two completed calls, the second without a title
C13_Witness ==
    /\ calls = 2
    /\ Len(history) = 2 /\ history[1].op = "add" /\ history[2].op = "add"
    /\ compat = << ModernCompat >>
    /\ body[Len(body) - 1].kind = "drawing"

(***************************************************************************)
(* Claims about hierarchy synthesis                                        *)
(***************************************************************************)
\* the data points below id, depth first, children by ascending ordering
\* key of their ParentOf connections
RECURSIVE DfsIds(_, _, _)
DfsIds(g, id, fuel) ==
    IF fuel = 0 THEN << >>
    ELSE LET kids == ChildCxns(g, id)
         IN  Flatten([k \in 1..Len(kids) |->
                        << g.cxns[kids[k]].destId >>
                        \o DfsIds(g, g.cxns[kids[k]].destId, fuel - 1)])

\* the seed's hierarchy slots in the order of the walk from the doc point
SeedSlots == DfsIds(seed, DocPointId(seed.pts), Len(seed.pts))

\* the labels of a nested structure, a key before the keys below it, keys
\* in insertion order
RECURSIVE Preorder(_)
Preorder(h) ==
    Flatten([i \in 1..Len(h) |-> << h[i].label >> \o Preorder(h[i].kids)])

\* the pairs <<label, label of its parent key>> of a nested structure
\* whose top-level keys have the parent label up
RECURSIVE ParentPairs(_, _)
ParentPairs(h, up) ==
    UNION {{<<h[i].label, up>>} \cup ParentPairs(h[i].kids, h[i].label) :
              i \in 1..Len(h)}

Min(a, b) == IF a <= b THEN a ELSE b

\* C15: hierarchy synthesis gives the i-th data point of the seed, in the
\* depth-first walk from the doc point with children by ascending
\* ordering key, the i-th label of the depth-first flattening of the
\* caller's nested structure.
C15_DepthFirstPlacement ==
    pc = "done" =>
        \A i \in 1..Min(Len(SeedSlots), Len(Preorder(items))) :
            TextOf(graph, SeedSlots[i]) = Preorder(items)[i]

\* C16: with more labels (L) than hierarchy slots in the seed (S) the
\* synthesis places the first S labels of the flattening, raises nothing,
\* and hands back the count of labels placed against the count requested.
C16_ExcessLabelsDroppedAndReported ==
    (pc = "done" /\ Len(Preorder(items)) > Len(SeedSlots)) =>
        /\ \A i \in 1..Len(SeedSlots) :
              TextOf(graph, SeedSlots[i]) = Preorder(items)[i]
        /\ raised = "none"
        /\ report = {[requested |-> Len(Preorder(items)), placed |-> Len(SeedSlots)]}

\* C17: every label the synthesis placed is on a data point whose ParentOf
\* parent carries the label of its parent key in the caller's structure,
\* the doc point for a top-level key.
C17_ParentChildRelationKept ==
    pc = "done" =>
        \A d \in DataIds(graph) :
            TextOf(graph, d) > 0 =>
                \E pair \in ParentPairs(items, 0) :
                    /\ pair[1] = TextOf(graph, d)
                    /\ \E i \in 1..Len(graph.cxns) :
                          /\ IsParOfCxn(graph.cxns[i])
                          /\ graph.cxns[i].destId = d
                          /\ IF pair[2] = 0
                             THEN graph.cxns[i].srcId = DocPointId(graph.pts)
                             ELSE /\ graph.cxns[i].srcId \in DataIds(graph)
                                  /\ TextOf(graph, graph.cxns[i].srcId) = pair[2]

(***************************************************************************)
(* Further claims about flat synthesis                                     *)
(***************************************************************************)
\* the data points of g that hold the center role of a radial layout
CenterIds(g) ==
    {g.pts[i].modelId : i \in {j \in 1..Len(g.pts) :
                                  IsDataPt(g.pts[j]) /\ g.pts[j].pr = "center"}}

\* the texts of the data points that are children of id, by ordering key
ChildTexts(g, id) ==
    LET kids == ChildCxns(g, id)
    IN  [k \in 1..Len(kids) |-> TextOf(g, g.cxns[kids[k]].destId)]

\* C18: add_radial hands flat synthesis the center label followed by the
\* k items; over a radial seed the result has k + 1 data points, the
\* center label is on the one point with the center role, and the k
\* items are in their order on the children of that point, for k below,
\* equal to and above the seed's number of peripheral points.
C18_RadialCenterAndSpokes ==
    (pc = "done" /\ CenterIds(seed) # {} /\ Len(items) >= 1) =>
        /\ DataCount(graph) = Len(items)
        /\ Cardinality(CenterIds(graph)) = 1
        /\ \A c \in CenterIds(graph) :
              /\ TextOf(graph, c) = items[1]
              /\ ChildTexts(graph, c) = SubSeq(items, 2, Len(items))

\* C19: flat synthesis with at least one item over a seed without data
\* points raises EmptyTopology.
C19_EmptySeedRaises ==
    (pc = "done" /\ DataCount(seed) = 0 /\ Len(items) >= 1)
        => raised = "EmptyTopology"

\* the ordering keys of the ParentOf connections from src among the first
\* n connections of g
KeysBefore(g, src, n) ==
    {g.cxns[i].srcOrd : i \in {j \in 1..n : IsParOfCxn(g.cxns[j])
                                              /\ g.cxns[j].srcId = src}}

\* C20: after flat synthesis no two ParentOf connections from one point
\* carry the same ordering key, and the key of each appended point is one
\* more than the largest key among the children its parent had when it
\* was appended.
C20_OrderingKeysTieFree ==
    pc = "done" =>
        /\ \A i, j \in 1..Len(graph.cxns) :
              (i < j /\ IsParOfCxn(graph.cxns[i]) /\ IsParOfCxn(graph.cxns[j])
                     /\ graph.cxns[i].srcId = graph.cxns[j].srcId)
                  => graph.cxns[i].srcOrd # graph.cxns[j].srcOrd
        /\ \A j \in 1..Len(graph.cxns) :
              (IsParOfCxn(graph.cxns[j]) /\ graph.cxns[j].destId \notin PtIds(seed))
                  => graph.cxns[j].srcOrd
                        = SetMax(KeysBefore(graph, graph.cxns[j].srcId, j - 1)) + 1

(***************************************************************************)
(* Claims about the structure either synthesis leaves                      *)
(***************************************************************************)
\* the number of points of g with the given modelId and type
CountPts(g, id, type) ==
    Cardinality({j \in 1..Len(g.pts) : g.pts[j].modelId = id /\ g.pts[j].type = type})

\* C21: after a flat or a hierarchy synthesis every data point is the
\* destination of at most one ParentOf connection, and every ParentOf
\* connection names one parTrans point and one sibTrans point that are in
\* the point list.
C21_OneParentOfWithTransitionPair ==
    pc = "done" =>
        /\ \A d \in DataIds(graph) :
              Cardinality({i \in 1..Len(graph.cxns) :
                              IsParOfCxn(graph.cxns[i]) /\ graph.cxns[i].destId = d}) <= 1
        /\ \A i \in 1..Len(graph.cxns) :
              IsParOfCxn(graph.cxns[i]) =>
                  /\ CountPts(graph, graph.cxns[i].parTransId, "parTrans") = 1
                  /\ CountPts(graph, graph.cxns[i].sibTransId, "sibTrans") = 1

\* a seed of two data points grown to four
C21_Witness ==
    /\ pc = "done"
    /\ DataCount(seed) = 2
    /\ DataCount(graph) = 4
    /\ Len(graph.cxns) = Len(seed.cxns) + 2

\* C27: after a flat or a hierarchy synthesis every presentation point of
\* the data model is a presentation point of the seed, with its modelId
\* and payload, or a copy of one made for an appended data point: none is
\* built from nothing.  (No copy is ever made: the points are the seed's.)
C27_NoInventedPresentationNode ==
    pc = "done" =>
        \A j \in 1..Len(graph.pts) :
            graph.pts[j].type = "pres" => graph.pts[j] \in Range(seed.pts)

\* a composite seed of one data point grown to three
C27_Witness ==
    /\ pc = "done"
    /\ DataCount(seed) = 1
    /\ DataCount(graph) = 3
    /\ Cardinality(PresIds(graph)) = 4

\* the donor of _add_extra_nodes: the seed's last data point
Donor == DataNodes(seed.pts)[Len(DataNodes(seed.pts))]

\* C25: every data point flat synthesis appends is attached by its
\* ParentOf connection to the parent of the seed's last data point, also
\* when that parent is not the doc point.
C25_AppendedUnderDonorsParent ==
    (pc = "done" /\ DataCount(seed) >= 1) =>
        \A j \in 1..Len(graph.cxns) :
            (IsParOfCxn(graph.cxns[j]) /\ graph.cxns[j].destId \notin PtIds(seed))
                => \E i \in 1..Len(seed.cxns) :
                      /\ IsParOfCxn(seed.cxns[i])
                      /\ seed.cxns[i].destId = Donor.modelId
                      /\ seed.cxns[i].srcId = graph.cxns[j].srcId

\* C26: when flat synthesis shrinks a seed to N items the data points
\* left are the first N of the seed with the items as text and nothing
\* else changed, and each still has its ParentOf connection, its
\* transition pair, and every PresentationOf connection and presentation
\* point it had in the seed.
C26_ShrinkKeepsSurvivorsWhole ==
    (pc = "done" /\ Len(items) < DataCount(seed)) =>
        LET sd == DataNodes(seed.pts)
            kept == {sd[i].modelId : i \in 1..Len(items)}
        IN  /\ DataNodes(graph.pts) = [i \in 1..Len(items) |-> SetNodeText(sd[i], items[i])]
            /\ \A i \in 1..Len(seed.cxns) :
                  (IsParOfCxn(seed.cxns[i]) /\ seed.cxns[i].destId \in kept) =>
                      /\ seed.cxns[i] \in Range(graph.cxns)
                      /\ CountPts(graph, seed.cxns[i].parTransId, "parTrans") = 1
                      /\ CountPts(graph, seed.cxns[i].sibTransId, "sibTrans") = 1
            /\ \A i \in 1..Len(seed.cxns) :
                  (seed.cxns[i].type = "presOf" /\ seed.cxns[i].srcId \in kept) =>
                      /\ seed.cxns[i] \in Range(graph.cxns)
                      /\ CountPts(graph, seed.cxns[i].destId, "pres") = 1

\* the points reachable from the points in S along ParentOf connections
RECURSIVE ParOfReach(_, _)
ParOfReach(g, S) ==
    LET T == S \cup {g.cxns[i].destId : i \in {j \in 1..Len(g.cxns) :
                                                   IsParOfCxn(g.cxns[j])
                                                   /\ g.cxns[j].srcId \in S}}
    IN  IF T = S THEN S ELSE ParOfReach(g, T)

\* C30: after flat synthesis every data point left in the data model is
\* reachable from the doc point along ParentOf connections.
C30_DataNodesReachable ==
    (pc = "done" /\ DataCount(seed) >= 1) =>
        DataIds(graph) \subseteq ParOfReach(graph, {DocPointId(graph.pts)})

\* C28: hierarchy synthesis changes the text of data points and nothing
\* else: the points are the seed's in the seed's order, same modelId,
\* type and payload, and the connections are the seed's, whatever the
\* size of the caller's structure.
C28_HierarchyChangesOnlyText ==
    pc = "done" =>
        /\ graph.cxns = seed.cxns
        /\ Len(graph.pts) = Len(seed.pts)
        /\ \A j \in 1..Len(seed.pts) :
              /\ graph.pts[j] = [seed.pts[j] EXCEPT !.text = graph.pts[j].text]
              /\ ~IsDataPt(seed.pts[j]) => graph.pts[j] = seed.pts[j]

\* four labels over a seed of two data points, one text at least changed
C28_Witness ==
    /\ pc = "done"
    /\ Len(Preorder(items)) = 4
    /\ DataCount(seed) = 2
    /\ graph # seed

\* C29: with fewer labels (L) than hierarchy slots in the seed (S) the
\* first L slots of the depth-first walk get the labels and the other
\* S - L data points stay in the data model with the seed's text.
C29_FewerLabelsKeepSeedText ==
    (pc = "done" /\ Len(Preorder(items)) < Len(SeedSlots)) =>
        \A i \in 1..Len(SeedSlots) :
            /\ SeedSlots[i] \in DataIds(graph)
            /\ TextOf(graph, SeedSlots[i])
                  = IF i <= Len(Preorder(items)) THEN Preorder(items)[i]
                    ELSE TextOf(seed, SeedSlots[i])

(***************************************************************************)
(* Claims about the parts an add call writes                               *)
(***************************************************************************)
\* the relationships an add call added to the part named stem<i>
AddedTo(stem, i) ==
    {r \in rels' \ rels : r.part.partname = PartName("diagrams", stem, i)}

\* C22: the drawing part a completed add call writes is the one fixed
\* empty drawing, whatever the topology, the template's own drawing
\* member and the synthesized data model.
C22_DrawingPartIsEmptyPlaceholder ==
    [][AddSucceeds =>
          \A r \in rels' \ rels :
              r.part.partname.stem = "drawing" => r.part.blob = BuildEmptyDrawing]_vars

\* two diagrams of different topologies added to an empty document: their
\* layout parts differ, their drawing parts hold the same bytes
C22_Witness ==
    /\ history = << [op |-> "add", idx |-> 1], [op |-> "add", idx |-> 2] >>
    /\ \E r1, r2 \in rels :
          /\ r1.part.partname = PartName("diagrams", "layout", 1)
          /\ r2.part.partname = PartName("diagrams", "layout", 2)
          /\ r1.part.blob # r2.part.blob
    /\ \E r1, r2 \in rels :
          /\ r1.part.partname = PartName("diagrams", "drawing", 1)
          /\ r2.part.partname = PartName("diagrams", "drawing", 2)
          /\ r1.part.blob = r2.part.blob

\* C23: a completed add call that allocated index i writes its five parts
\* at diagrams/data<i>, layout<i>, quickStyle<i>, colors<i> and
\* drawing<i>, each with the content type of its kind, for every
\* topology and every i.
C23_PathsAndContentTypes ==
    [][AddSucceeds =>
          LET i == history'[Len(history')].idx
          IN  /\ \A r \in rels' \ rels :
                    r.part.partname.dir = "diagrams" /\ r.part.partname.idx = i
              /\ \A r \in AddedTo("data", i) : r.part.ctype = CT_DGM_DATA
              /\ \A r \in AddedTo("layout", i) : r.part.ctype = CT_DGM_LAYOUT
              /\ \A r \in AddedTo("quickStyle", i) : r.part.ctype = CT_DGM_STYLE
              /\ \A r \in AddedTo("colors", i) : r.part.ctype = CT_DGM_COLORS
              /\ \A r \in AddedTo("drawing", i) : r.part.ctype = CT_DGM_DRAWING
              /\ \A stem \in Stems : Cardinality(AddedTo(stem, i)) = 1]_vars

\* a pyramid added at index 4 to a document that held diagram 3
C23_Witness ==
    /\ result = "ok"
    /\ history = << [op |-> "add", idx |-> 4] >>
    /\ \E r \in rels :
          /\ r.part.partname = PartName("diagrams", "quickStyle", 4)
          /\ r.part.ctype = CT_DGM_STYLE
          /\ r.part.blob = TemplatePart("pyramid", "style")

(***************************************************************************)
(* Claim about threads sharing a document                                  *)
(***************************************************************************)
\* C24: add calls of two threads on one document are unsafe unless
\* serialized: two calls that read the same relationships, neither
\* having registered its parts, allocate the same index, and once both
\* have registered, each of the five part names of that index is the
\* target of two relationships; such an interleaving exists.
C24_UnserializedInjectionsCollide ==
    \A a, b \in DOMAIN threads :
        a # b =>
            /\ (threads[a].pc # "start" /\ threads[b].pc # "start"
                    /\ threads[a].seen = threads[b].seen)
                  => threads[a].idx = threads[b].idx
            /\ (threads[a].pc \in {"registered", "done"}
                    /\ threads[b].pc \in {"registered", "done"}
                    /\ threads[a].idx = threads[b].idx)
                  => \A stem \in Stems :
                        Cardinality(RelOfStem(rels, stem, threads[a].idx)) >= 2

\* both calls have returned: one index, two relationships to data<idx>,
\* two drawing paragraphs of that index
C24_Witness ==
    /\ \A k \in DOMAIN threads : threads[k].pc = "done"
    /\ DOMAIN threads # {}
    /\ \E a, b \in DOMAIN threads :
          /\ a # b
          /\ threads[a].idx = threads[b].idx
          /\ threads[a].t # threads[b].t
          /\ Cardinality(RelOfStem(rels, "data", threads[a].idx)) = 2
          /\ Len(SelectSeq(body, LAMBDA e : e.kind = "drawing"
                                              /\ e.idx = threads[a].idx)) = 2
====
